---- MODULE Spec2Model ----
(***************************************************************************)
(* Model of ezdxf.addons.binpacking: the Item/Bin geometry, Bin.put_item,  *)
(* the corner-point placement of Packer/FlatPacker.pack_to_bin, the greedy *)
(* loop AbstractPacker._pack behind pack() and schematic_pack(), the       *)
(* schematic_picker generator and the GeneticSolver.                      *)
(*                                                                         *)
(* Floats are modelled by integers: all dimensions, weights and positions  *)
(* used are integral, ratios are kept as numerator/denominator pairs and   *)
(* pick values are counted in units of 1/PickDen.                         *)
(***************************************************************************)
EXTENDS Integers, Sequences, FiniteSets, TLC

\* ------------------------------------------------------------------ bounds

\* most items added to a packer
MaxItems == 3
\* pick values are the multiples of 1/PickDen
PickDen == 2
\* longest list handed to a schematic_picker of its own, and longest schema
MaxLen == 3
\* most genes a caller adds to a solver
MaxGenes == 1
\* largest max_runs a solver is made with
MaxRuns == 2
\* the clock time.perf_counter() reads runs from 0 to MaxClock
MaxClock == 1
\* most attempts shuffle_pack is called with
MaxAttempts == 2
\* most copies a caller takes of the item it holds
MaxCopies == 1

\* ------------------------------------------------------- program constants

\* binpacking.py:76 (1e99: larger than any sum of item weights)
UNLIMITED_WEIGHT == 1000000
\* binpacking.py:101
START_POSITION == <<0, 0, 0>>
\* binpacking.py:80-86, in enum order
RotationType == <<"WHD", "HWD", "HDW", "DHW", "DWH", "WDH">>
\* binpacking.py:89-92, in enum order
Axis == <<"WIDTH", "HEIGHT", "DEPTH">>

\* ----------------------------------------------------------------- helpers

Range(s) == {s[i] : i \in DOMAIN s}

\* the element of a one-element set: The({F(x) : x \in {e}}) is F(e) with e
\* evaluated once
The(S) == CHOOSE x \in S : TRUE

Abs(x) == IF x < 0 THEN -x ELSE x

RECURSIVE SumSeq(_)
SumSeq(s) == IF s = <<>> THEN 0 ELSE Head(s) + SumSeq(Tail(s))

\* list.remove(x): drops the first occurrence
RemoveFirst(s, x) ==
    LET i == CHOOSE j \in DOMAIN s : s[j] = x /\ \A m \in 1..(j - 1) : s[m] # x
    IN  SubSeq(s, 1, i - 1) \o SubSeq(s, i + 1, Len(s))

\* list.pop(i) leaves the list without position i (1-based here)
RemoveAt(s, i) == SubSeq(s, 1, i - 1) \o SubSeq(s, i + 1, Len(s))

\* rounding a tie up, as round() does in other languages
RoundHalfUp(p, q) ==
    LET fl == p \div q
    IN  IF 2 * (p % q) < q THEN fl ELSE fl + 1

\* Python's round(): to the nearest integer, a tie to the even one; of p/q, q > 0
RoundHalfEven(p, q) ==
    LET fl == p \div q
        r2 == 2 * (p % q)
    IN  IF r2 < q THEN fl
        ELSE IF r2 > q THEN fl + 1
        ELSE IF fl % 2 = 0 THEN fl ELSE fl + 1

\* list.sort(key=..., reverse=...): stable in both directions. The result lists the
\* positions of the input in their sorted order.
SortedOrder(keys, reverse) ==
    LET n == Len(keys)
        Before(j, i) ==
            \/ (IF reverse THEN keys[j] > keys[i] ELSE keys[j] < keys[i])
            \/ keys[j] = keys[i] /\ j < i
        Rank(i) == Cardinality({j \in 1..n : Before(j, i)}) + 1
    IN  [r \in 1..n |-> CHOOSE i \in 1..n : Rank(i) = r]

Permute(s, order) == [r \in 1..Len(s) |-> s[order[r]]]

Permutations_(n) ==
    {p \in [1..n -> 1..n] : \A a, b \in 1..n : a # b => p[a] # p[b]}

\* -------------------------------------------------------------------- Item

\* Item.__init__ / FlatItem.__init__ (depth 1)
NewItem(cls, width, height, depth, weight) ==
    [cls |-> cls, width |-> width, height |-> height,
     depth |-> IF cls = "FlatItem" THEN 1 ELSE depth, weight |-> weight,
     rotation_type |-> "WHD", position |-> START_POSITION]

\* Item.get_volume
ItemVolume(it) == it.width * it.height * it.depth

\* Item.get_dimension
GetDimension(it) ==
    CASE it.rotation_type = "WHD" -> <<it.width, it.height, it.depth>>
      [] it.rotation_type = "HWD" -> <<it.height, it.width, it.depth>>
      [] it.rotation_type = "HDW" -> <<it.height, it.depth, it.width>>
      [] it.rotation_type = "DHW" -> <<it.depth, it.height, it.width>>
      [] it.rotation_type = "DWH" -> <<it.depth, it.width, it.height>>
      [] it.rotation_type = "WDH" -> <<it.width, it.depth, it.height>>

\* Item.bbox: from position to position + dimension; a FlatItem's box is 2D
BBox(it) ==
    LET dim == GetDimension(it)
        nd == IF it.cls = "FlatItem" THEN 2 ELSE 3
    IN  [extmin |-> [a \in 1..nd |-> it.position[a]],
         extmax |-> [a \in 1..nd |-> it.position[a] + dim[a]]]

\* BoundingBox.intersect of ezdxf.math: true when the boxes overlap, touching boxes
\* do not intersect
Intersect(b1, b2) ==
    \A a \in DOMAIN b1.extmin :
        b1.extmin[a] < b2.extmax[a] /\ b2.extmin[a] < b1.extmax[a]

\* --------------------------------------------------------------------- Bin

\* Bin.__init__ / Envelope.__init__ (depth 1)
NewBin(cls, width, height, depth, max_weight) ==
    [cls |-> cls, width |-> width, height |-> height,
     depth |-> IF cls = "Envelope" THEN 1 ELSE depth,
     max_weight |-> max_weight, items |-> <<>>]

\* Bin.rotations / Envelope.rotations
Rotations(box) ==
    IF box.cls = "Envelope" THEN <<"WHD", "HWD">> ELSE RotationType

\* Bin.get_capacity
BinCapacity(box) == box.width * box.height * box.depth

\* Bin.get_total_weight; `item` is the heap of items, by id
BinTotalWeight(box, item) ==
    SumSeq([j \in DOMAIN box.items |-> item[box.items[j]].weight])

\* Bin.get_total_volume
BinTotalVolume(box, item) ==
    SumSeq([j \in DOMAIN box.items |-> ItemVolume(item[box.items[j]])])

\* Bin.get_fill_ratio: the quotient, or the ZeroDivisionError of a float division
\* by 0.0
BinFillRatio(box, item) ==
    IF BinCapacity(box) = 0
    THEN [error |-> "ZeroDivisionError", num |-> 0, den |-> 1]
    ELSE [error |-> "", num |-> BinTotalVolume(box, item), den |-> BinCapacity(box)]

\* put_item's bounds test of line 265, negated: the item at `pivot` stays inside
FitsInside(box, it) ==
    LET dim == GetDimension(it)
    IN  ~ (\/ box.width < it.position[1] + dim[1]
           \/ box.height < it.position[2] + dim[2]
           \/ box.depth < it.position[3] + dim[3])

\* put_item, line 270: no placed item's box intersects the new item's box
NoOverlap(box, item, i) ==
    ~ \E j \in DOMAIN box.items : Intersect(BBox(item[i]), BBox(item[box.items[j]]))

WeightFitsNoCheck(box, item, i) == TRUE

\* put_item, line 271
WeightFits(box, item, i) ==
    BinTotalWeight(box, item) + item[i].weight <= box.max_weight

\* The rotation loop of put_item: the first rotation, in the order of rotations(),
\* that passes the three tests; without one the item keeps the last rotation tried.
\* The result is the rotation the item is left with and whether it was appended.
TryRotations(box, item, i) ==
    LET rots == Rotations(box)
        Turned(k) == [item EXCEPT ![i].rotation_type = rots[k]]
        Passes(k) == /\ FitsInside(box, Turned(k)[i])
                     /\ NoOverlap(box, Turned(k), i)
                     /\ WeightFits(box, Turned(k), i)
        passing == {k \in DOMAIN rots : Passes(k)}
    IN  IF passing = {}
        THEN [ok |-> FALSE,
              rotation_type |-> IF rots = <<>> THEN item[i].rotation_type
                                ELSE rots[Len(rots)]]
        ELSE [ok |-> TRUE,
              rotation_type |-> rots[CHOOSE k \in passing : \A m \in passing : k <= m]]

\* Bin.put_item(item, pivot) on bin b of `bins`: the bins and the items after it
PutItem(bins, item, b, i, pivot) ==
    LET valid_item_position == item[i].position
        moved == [item EXCEPT ![i].position = pivot]
    IN  The({
        IF r.ok
        THEN [ok |-> TRUE,
              bins |-> [bins EXCEPT ![b].items = Append(@, i)],
              item |-> [moved EXCEPT ![i].rotation_type = r.rotation_type]]
        ELSE [ok |-> FALSE,
              bins |-> bins,
              item |-> [moved EXCEPT ![i].rotation_type = r.rotation_type,
                                     ![i].position = valid_item_position]]
        : r \in {TryRotations(bins[b], moved, i)}})

\* Packer.pack_to_bin / FlatPacker.pack_to_bin: the pivots it tries, in order
Pivots(box, item) ==
    IF box.items = <<>> THEN <<START_POSITION>>
    ELSE LET n == Len(box.items)
             axes == IF box.cls = "Envelope" THEN SubSeq(Axis, 1, 2) ELSE Axis
             PivotAt(axis, placed) ==
                 LET dim == GetDimension(placed)
                     pos == placed.position
                     z == IF box.cls = "Envelope" THEN 0 ELSE pos[3]
                 IN  CASE axis = "WIDTH" -> <<pos[1] + dim[1], pos[2], z>>
                       [] axis = "HEIGHT" -> <<pos[1], pos[2] + dim[2], z>>
                       [] axis = "DEPTH" -> <<pos[1], pos[2], pos[3] + dim[3]>>
         IN  [k \in 1..(Len(axes) * n) |->
                 PivotAt(axes[((k - 1) \div n) + 1],
                         item[box.items[((k - 1) % n) + 1]])]

\* -------------------------------------------------------- schematic_picker

\* The pick values a caller may hand over, in units of 1/PickDen: from -1 to
\* 1 + 1/PickDen
PickValues == (-PickDen)..(PickDen + 1)

\* the index without abs()
PickIndexNoAbs(value, n) == RoundHalfEven(value * (n - 1), PickDen)

\* the index of line 490: round(abs(value) * (len(items) - 1))
PickIndex(value, n) == RoundHalfEven(Abs(value) * (n - 1), PickDen)

\* list.pop(index) raises IndexError outside -n..n-1
PopIndexValid(index, n) == -n <= index /\ index < n

\* the 1-based position list.pop(index) removes (a negative index counts from the end)
PopPosition(index, n) == IF index < 0 THEN n + index + 1 ELSE index + 1

\* A schematic_picker generator: the list left, the schema and how many of its values
\* were consumed, what was yielded so far, and how the last next() ended.
NewPicker(list, schema) ==
    [items |-> list, schema |-> schema, pos |-> 0, out |-> <<>>,
     status |-> "ready", error |-> ""]

\* One next() on the generator: one turn of the while loop of lines 484-492
PickerNext(g) ==
    IF g.items = <<>>
    THEN [g EXCEPT !.status = "exhausted"]
    ELSE IF g.pos >= Len(g.schema)
    THEN [g EXCEPT !.status = "error", !.error = "not enough pick values"]
    ELSE LET n == Len(g.items)
             index == PickIndex(g.schema[g.pos + 1], n)
         IN  IF PopIndexValid(index, n)
             THEN [g EXCEPT !.items = RemoveAt(@, PopPosition(index, n)),
                            !.pos = @ + 1,
                            !.out = Append(@, g.items[PopPosition(index, n)]),
                            !.status = "yielded"]
             ELSE [g EXCEPT !.pos = @ + 1, !.status = "error",
                            !.error = "pick values have to be in range [0, 1]"]

\* The generator run until it stops: what it yields, and the error it ends with
RECURSIVE PickerRun(_)
PickerRun(g) ==
    IF g.status \in {"exhausted", "error"} THEN g
    ELSE The({PickerRun(n) : n \in {PickerNext(g)}})

SchematicPicker(list, schema) == PickerRun(NewPicker(list, schema))

\* itertools.repeat(value), as far as a picker over n elements reads it
Repeat(value, n) == [j \in 1..n |-> value]

\* ---------------------------------------------------------- AbstractPacker

\* A packer: its class, self.bins, self.items (ids of the unplaced items),
\* self._init_state, and `item`, the Item objects by id.
NewPacker(cls) ==
    [cls |-> cls, bins |-> <<>>, items |-> <<>>, item |-> <<>>, init_state |-> TRUE]

IsPackedNever(pk) == FALSE

\* AbstractPacker.is_packed
IsPacked(pk) == ~ pk.init_state

\* Packer.add_bin / FlatPacker.add_bin, on an unpacked packer
AddBin(pk, width, height, depth, max_weight) ==
    [pk EXCEPT !.bins = Append(@,
        NewBin(IF pk.cls = "FlatPacker" THEN "Envelope" ELSE "Box",
               width, height, depth, max_weight))]

\* Packer.add_item / FlatPacker.add_item, on an unpacked packer
AddItem(pk, width, height, depth, weight) ==
    [pk EXCEPT !.items = Append(@, Len(pk.item) + 1),
               !.item = Append(@,
        NewItem(IF pk.cls = "FlatPacker" THEN "FlatItem" ELSE "Item",
                width, height, depth, weight))]

\* AbstractPacker.get_capacity
Capacity(pk) == SumSeq([b \in DOMAIN pk.bins |-> BinCapacity(pk.bins[b])])

\* AbstractPacker.get_total_volume
TotalVolume(pk) ==
    SumSeq([b \in DOMAIN pk.bins |-> BinTotalVolume(pk.bins[b], pk.item)])

\* AbstractPacker.get_fill_ratio, as numerator and denominator
FillRatio(pk) ==
    IF Capacity(pk) = 0 THEN [num |-> 0, den |-> 1]
    ELSE [num |-> TotalVolume(pk), den |-> Capacity(pk)]

\* _smaller_first / _bigger_first: both lists sorted in place
SortBinsAndItems(pk, reverse) ==
    LET border == SortedOrder([b \in DOMAIN pk.bins |-> BinCapacity(pk.bins[b])], reverse)
        iorder == SortedOrder([j \in DOMAIN pk.items |-> ItemVolume(pk.item[pk.items[j]])],
                              reverse)
    IN  [pk EXCEPT !.bins = Permute(pk.bins, border),
                   !.items = Permute(pk.items, iorder)]

\* The frame of a running _pack(bins, items): the two iterables (what each yields
\* and the error it ends with), the loop positions, the pivot pack_to_bin is at.
\* A generator (one_shot) is not restarted by the next `for item in items`.
\* bin_schema_none: the call is schematic_pack and its bin_schema argument was None.
NewFrame(strategy, box_order, box_err, item_order, item_err, one_shot) ==
    [pc |-> "box", strategy |-> strategy,
     box_order |-> box_order, box_err |-> box_err, bi |-> 0,
     item_order |-> item_order, item_err |-> item_err, ii |-> 0,
     one_shot |-> one_shot, k |-> 0, error |-> "", bin_schema_none |-> FALSE]

IdleFrame == [NewFrame("", <<>>, "", <<>>, "", FALSE) EXCEPT !.pc = "init"]

\* AbstractPacker.pack(pick) up to the first turn of the loop of _pack; SHUFFLE
\* takes the permutations random.shuffle produced
PackCall(pk, pick, bperm, iperm) ==
    LET sorted ==
            CASE pick = "SMALLER_FIRST" -> SortBinsAndItems(pk, FALSE)
              [] pick = "BIGGER_FIRST" -> SortBinsAndItems(pk, TRUE)
              [] pick = "SHUFFLE" -> [pk EXCEPT !.bins = Permute(pk.bins, bperm),
                                                !.items = Permute(pk.items, iperm)]
    IN  [pk |-> [sorted EXCEPT !.init_state = FALSE],
         fr |-> NewFrame(pick, [b \in DOMAIN sorted.bins |-> b], "",
                         sorted.items, "", FALSE)]

\* the bin_schema argument of schematic_pack: None (the default), or pick values
NoSchema == [none |-> TRUE, values |-> <<>>]
Schema(values) == [none |-> FALSE, values |-> values]

DefaultBinSchemaFromFront(n) == Repeat(0, n)

\* lines 433-434: itertools.repeat(1.0), as far as n bins read it
DefaultBinSchema(n) == Repeat(PickDen, n)

\* AbstractPacker.schematic_pack(item_schema, bin_schema) up to the first turn of
\* the loop of _pack
SchematicPackCall(pk, item_schema, bin_schema) ==
    The({
        LET bsch == IF bin_schema.none THEN DefaultBinSchema(Len(sorted.bins))
                    ELSE bin_schema.values
        IN  The({
            [pk |-> [sorted EXCEPT !.init_state = FALSE],
             fr |-> [NewFrame("schematic", boxes.out, boxes.error,
                              todo.out, todo.error, TRUE)
                        EXCEPT !.bin_schema_none = bin_schema.none]]
            : boxes \in {SchematicPicker([b \in DOMAIN sorted.bins |-> b], bsch)},
              todo \in {SchematicPicker(sorted.items, item_schema)}})
        : sorted \in {SortBinsAndItems(pk, FALSE)}})

\* `for box in bins`: the next bin, or the end of _pack
NextBox(pk, fr) ==
    [pk |-> pk,
     fr |-> IF fr.bi < Len(fr.box_order)
            THEN [fr EXCEPT !.bi = @ + 1, !.pc = "item",
                            !.ii = IF fr.one_shot THEN @ ELSE 0]
            ELSE IF fr.box_err # ""
            THEN [fr EXCEPT !.pc = "error", !.error = fr.box_err]
            ELSE [fr EXCEPT !.pc = "done"]]

\* `for item in items`: the next item, or the end of the inner loop
NextItem(pk, fr) ==
    [pk |-> pk,
     fr |-> IF fr.ii < Len(fr.item_order)
            THEN [fr EXCEPT !.ii = @ + 1, !.pc = "put", !.k = 1]
            ELSE IF fr.item_err # ""
            THEN [fr EXCEPT !.pc = "error", !.error = fr.item_err]
            ELSE [fr EXCEPT !.pc = "box"]]

\* the bin and the item the loop of _pack is at
CurrentBox(fr) == fr.box_order[fr.bi]
CurrentItem(fr) == fr.item_order[fr.ii]

\* the box.put_item(item, pivot) call pack_to_bin is about to make
CurrentPut(pk, fr) ==
    PutItem(pk.bins, pk.item, CurrentBox(fr), CurrentItem(fr),
            Pivots(pk.bins[CurrentBox(fr)], pk.item)[fr.k])

\* One put_item call of pack_to_bin, and on success the self.items.remove(item) of
\* _pack, which raises ValueError for an item that is not in the list.
PutItemCall(pk, fr) ==
    The({
        LET placed == [pk EXCEPT !.bins = r.bins, !.item = r.item]
        IN
        IF r.ok
        THEN IF CurrentItem(fr) \in Range(pk.items)
             THEN [pk |-> [placed EXCEPT !.items = RemoveFirst(@, CurrentItem(fr))],
                   fr |-> [fr EXCEPT !.pc = "item"]]
             ELSE [pk |-> placed,
                   fr |-> [fr EXCEPT !.pc = "error",
                                     !.error = "list.remove(x): x not in list"]]
        ELSE [pk |-> placed,
              fr |-> IF fr.k < Len(Pivots(pk.bins[CurrentBox(fr)], pk.item))
                     THEN [fr EXCEPT !.k = @ + 1]
                     ELSE [fr EXCEPT !.pc = "item"]]
        : r \in {CurrentPut(pk, fr)}})

\* The loop of _pack from where it stands up to its next put_item call, or to its
\* end: `for box in bins` and `for item in items` change no object.
RECURSIVE ToNextPut(_, _)
ToNextPut(pk, fr) ==
    CASE fr.pc = "box" -> The({ToNextPut(s.pk, s.fr) : s \in {NextBox(pk, fr)}})
      [] fr.pc = "item" -> The({ToNextPut(s.pk, s.fr) : s \in {NextItem(pk, fr)}})
      [] OTHER -> [pk |-> pk, fr |-> fr]

\* _pack run to its end
RECURSIVE RunPack(_, _)
RunPack(pk, fr) ==
    CASE fr.pc \in {"done", "error"} -> [pk |-> pk, fr |-> fr]
      [] fr.pc = "put" -> The({RunPack(s.pk, s.fr) : s \in {PutItemCall(pk, fr)}})
      [] OTHER -> The({RunPack(s.pk, s.fr) : s \in {ToNextPut(pk, fr)}})

\* AbstractPacker.copy of an unpacked packer with empty bins: a new packer with a
\* copy of every bin and of every item of self.items
PackerCopy(pk) ==
    [cls |-> pk.cls,
     bins |-> [b \in DOMAIN pk.bins |-> [pk.bins[b] EXCEPT !.items = pk.bins[b].items]],
     items |-> [j \in DOMAIN pk.items |-> j],
     item |-> [j \in DOMAIN pk.items |-> pk.item[pk.items[j]]],
     init_state |-> TRUE]

CopySharingItems(pk) == [i \in DOMAIN pk.item |-> i]

\* Item.copy for every item of a packer that is copied: same[i] is the id, in the
\* copy, of the object that is item i of the original, or 0 when the copy holds no
\* such object. copy.copy(item) makes a new object for each item.
CopiedItems(pk) == [i \in DOMAIN pk.item |-> 0]

\* the original packer as a caller sees it now, the copy being `copy`: a field of an
\* item that is also an object of the copy is read there
SeenNow(orig, copy) ==
    [orig.pk EXCEPT !.item = [i \in DOMAIN orig.pk.item |->
                                 IF orig.same[i] = 0 THEN orig.pk.item[i]
                                 ELSE copy.item[orig.same[i]]]]

\* shuffle_pack(packer, attempts), attempts >= 1, up to its loop: best_packer is
\* the input packer itself (best_is_input), best_ratio is 0.0
ShufflePackCall(pk, attempts) ==
    [pc |-> "loop", attempts |-> attempts, best_ratio |-> [num |-> 0, den |-> 1],
     best_packer |-> pk, best_is_input |-> TRUE, seen |-> [num |-> 0, den |-> 1]]

\* One turn of the loop of shuffle_pack, lines 457-462, new_packer being the copy
\* after pack(SHUFFLE), and the return after the last turn. `seen` is the largest
\* fill ratio of the attempts so far.
ShuffleTurn(sh, new_packer) ==
    LET new_ratio == FillRatio(new_packer)
        better == new_ratio.num * sh.best_ratio.den > sh.best_ratio.num * new_ratio.den
    IN  [sh EXCEPT !.attempts = @ - 1,
                   !.pc = IF sh.attempts = 1 THEN "returned" ELSE "loop",
                   !.best_ratio = IF better THEN new_ratio ELSE @,
                   !.best_packer = IF better THEN new_packer ELSE @,
                   !.best_is_input = IF better THEN FALSE ELSE @,
                   !.seen = IF new_ratio.num * sh.seen.den > sh.seen.num * new_ratio.den
                            THEN new_ratio ELSE @]

\* -------------------------------------------------------------------- Gene

\* Gene.fitness: None, or a fill ratio
NoFitness == [none |-> TRUE, num |-> 0, den |-> 1]
Fitness(ratio) == [none |-> FALSE, num |-> ratio.num, den |-> ratio.den]

\* comparisons of two ratios with positive denominators
SameRatio(a, b) == a.num * b.den = b.num * a.den
RatioGreater(a, b) == a.num * b.den > b.num * a.den
RatioAtLeast(a, b) == a.num * b.den >= b.num * a.den

\* Gene(length, value), with value in [0, 1]
NewGene(length, value) ==
    [length |-> length, data |-> [j \in 1..length |-> value], fitness |-> NoFitness]

\* Gene.reset(values) on a new gene of that length
GeneOf(values) == [NewGene(Len(values), 0) EXCEPT !.data = values]

\* Gene.mutate_at for the positions of `mask`: 1 - value, and the fitness is tainted
MutateAt(gene, mask) ==
    IF mask = {} THEN gene
    ELSE [gene EXCEPT !.data = [j \in DOMAIN gene.data |->
                                   IF j \in mask THEN PickDen - gene.data[j]
                                   ELSE gene.data[j]],
                      !.fitness = NoFitness]

\* Gene._check_valid_data: the ValueError it raises, or ""
CheckValidData(gene) ==
    IF Len(gene.data) # gene.length THEN "invalid data count"
    ELSE IF \E j \in DOMAIN gene.data : gene.data[j] < 0 \/ gene.data[j] > PickDen
    THEN "data value out of range"
    ELSE ""

\* The slice assignment data[-k:] = part, k = len(part): the elements before the
\* slice stay. -0 is 0, so for an empty part the slice is the whole list.
SliceAssignBack(data, part) ==
    LET k == Len(part)
        kept == IF k = 0 \/ k >= Len(data) THEN 0 ELSE Len(data) - k
    IN  SubSeq(data, 1, kept) \o part

\* the part put at the front of the data instead
ReplaceBackAtFront(gene, part) ==
    LET changed == [gene EXCEPT !.data = part \o SubSeq(gene.data, Len(part) + 1,
                                                        Len(gene.data))]
    IN  IF CheckValidData(changed) # ""
        THEN [gene |-> changed, error |-> CheckValidData(changed)]
        ELSE [gene |-> [changed EXCEPT !.fitness = NoFitness], error |-> ""]

\* Gene.replace_back(part): the gene after it and the error it raised. The data is
\* assigned before it is checked, and the fitness is tainted after the check.
ReplaceBack(gene, part) ==
    LET changed == [gene EXCEPT !.data = SliceAssignBack(gene.data, part)]
    IN  IF CheckValidData(changed) # ""
        THEN [gene |-> changed, error |-> CheckValidData(changed)]
        ELSE [gene |-> [changed EXCEPT !.fitness = NoFitness], error |-> ""]

\* recombine_genes(gene1, gene2, index), index from 0 to the length: the two genes
\* after it and the error it raised; gene2 is not reached when gene1 raises
RecombineGenesCall(gene1, gene2, index) ==
    LET part1 == SubSeq(gene1.data, index + 1, Len(gene1.data))
        part2 == SubSeq(gene2.data, index + 1, Len(gene2.data))
        r1 == ReplaceBack(gene1, part2)
        r2 == ReplaceBack(gene2, part1)
    IN  IF r1.error # ""
        THEN [gene1 |-> r1.gene, gene2 |-> gene2, error |-> r1.error]
        ELSE [gene1 |-> r1.gene, gene2 |-> r2.gene, error |-> r2.error]

\* recombine_genes in _selection, where it does not raise: the two genes after it
RecombineGenes(gene1, gene2, index) ==
    LET r == RecombineGenesCall(gene1, gene2, index)
    IN  <<r.gene1, r.gene2>>

\* ------------------------------------------------------------ GeneticSolver

\* GeneticSolver.__init__ with valid arguments. `heap` holds the Gene objects, by
\* id; self._genes and self.best_gene hold ids. pc, gi and next_genes are where
\* execute() stands: the gene _measure_fitness is at, the list _selection builds.
\* clock is the time the last perf_counter() call read.
NewSolver(pk, max_runs, max_fitness) ==
    [packer |-> pk, max_runs |-> max_runs, max_fitness |-> max_fitness,
     required_gene_length |-> Len(pk.items),
     heap |-> <<NewGene(0, 0)>>, genes |-> <<>>,
     best_fitness |-> [num |-> 0, den |-> 1], best_gene |-> 1, best_packer |-> pk,
     run |-> 0,
     pc |-> "idle", gi |-> 0, next_genes |-> <<>>,
     start_time |-> 0, t1 |-> 0, max_time |-> 0, clock |-> 0]

\* the default of max_time in execute(): 1e99
MaxTimeDefault == UNLIMITED_WEIGHT

\* GeneticSolver.is_executed
IsExecuted(sv) == sv.run # 0

AddGeneOfAnyLength(sv, gene) ==
    [sv EXCEPT !.heap = Append(@, gene), !.genes = Append(@, Len(sv.heap) + 1)]

\* add_gene(gene) on a solver that is not executed: the gene object joins the
\* population, or ValueError is raised for a gene of another length
AddGene(sv, gene) ==
    IF Len(gene.data) # sv.required_gene_length THEN sv
    ELSE [sv EXCEPT !.heap = Append(@, gene), !.genes = Append(@, Len(sv.heap) + 1)]

\* execute(max_time=...) up to the first _measure_fitness: perf_counter() read `now`
ExecuteCall(sv, max_time, now) ==
    [sv EXCEPT !.clock = now, !.start_time = now, !.max_time = max_time,
               !.run = 0, !.pc = "measure", !.gi = 1]

\* the fitness of one gene: the fill ratio of a copy of the packer after
\* schematic_pack(iter(gene))
PackedCopy(sv, gene) ==
    The({RunPack(c.pk, c.fr).pk
         : c \in {SchematicPackCall(PackerCopy(sv.packer), gene.data, NoSchema)}})

BestUpdateNever(sv, g, p0) == sv

BestUpdateOnEqual(sv, g, p0) ==
    IF RatioAtLeast(FillRatio(p0), sv.best_fitness)
    THEN [sv EXCEPT !.best_fitness = FillRatio(p0), !.best_packer = p0, !.best_gene = g]
    ELSE sv

\* lines 754-757: a strictly greater fill ratio replaces the best triple
BestUpdate(sv, g, p0) ==
    IF RatioGreater(FillRatio(p0), sv.best_fitness)
    THEN [sv EXCEPT !.best_fitness = FillRatio(p0), !.best_packer = p0, !.best_gene = g]
    ELSE sv

\* the packer pk of a solver as it is seen once the copy p0 of the base packer is
\* packed: an item object that the base packer's copies share with it is read in p0
SeenAfter(sv, pk, p0) ==
    IF DOMAIN pk.item # DOMAIN sv.packer.item THEN pk
    ELSE SeenNow([pk |-> pk, same |-> CopiedItems(sv.packer)], p0)

\* one turn of the loop of _measure_fitness, for the gene at position gi: the copy
\* p0 is packed, which is seen in every packer that shares an object with it
MeasureGene(sv) ==
    LET g == sv.genes[sv.gi]
        next == [sv EXCEPT !.gi = @ + 1]
    IN  IF ~ sv.heap[g].fitness.none THEN next
        ELSE The({BestUpdate([next EXCEPT !.heap[g].fitness = Fitness(FillRatio(p0)),
                                          !.packer = SeenAfter(sv, @, p0),
                                          !.best_packer = SeenAfter(sv, @, p0)],
                             g, p0)
                  : p0 \in {PackedCopy(sv, sv.heap[g])}})

CheckBreaksWithoutTarget(sv, now) ==
    IF sv.start_time - now > sv.max_time
    THEN [sv EXCEPT !.pc = "returned", !.clock = now, !.t1 = now]
    ELSE [sv EXCEPT !.pc = "select", !.clock = now, !.t1 = now, !.next_genes = <<>>]

\* lines 736-743 after _measure_fitness: the two breaks; perf_counter() read `now`
CheckBreaks(sv, now) ==
    IF RatioAtLeast(sv.best_fitness, sv.max_fitness)
    THEN [sv EXCEPT !.pc = "returned"]
    ELSE IF sv.start_time - now > sv.max_time
    THEN [sv EXCEPT !.pc = "returned", !.clock = now, !.t1 = now]
    ELSE [sv EXCEPT !.pc = "select", !.clock = now, !.t1 = now, !.next_genes = <<>>]

\* _make_wheel: the weight of each gene of the population, as a ratio
WheelWeights(sv) ==
    LET fit(j) == sv.heap[sv.genes[j]].fitness
        \* all fitness values of one solver share the denominator (the capacity)
        total == SumSeq([j \in DOMAIN sv.genes |-> fit(j).num])
    IN  [j \in DOMAIN sv.genes |->
            IF total = 0 THEN [num |-> fit(j).num, den |-> fit(j).den]
            ELSE [num |-> fit(j).num, den |-> total]]

\* random.choices(items, weights): the positions it can return. With a total weight
\* of 0 it picks the last one (Python before 3.9); the other outcome, ValueError
\* (Python 3.9 and later), is SelectionRaises.
Pickable(sv) ==
    LET w == WheelWeights(sv)
    IN  IF \A j \in DOMAIN w : w[j].num = 0
        THEN {j \in DOMAIN w : j = Len(w)}
        ELSE {j \in DOMAIN w : w[j].num > 0}

\* One turn of the loop of _selection: the two genes it appends. The parents are
\* copied, recombined at `location` when `cross`, and mutated at the masks.
Pair(sv, j1, j2, cross, location, mask1, mask2) ==
    LET gene1 == sv.heap[sv.genes[j1]]
        gene2 == sv.heap[sv.genes[j2]]
        rec == IF cross THEN RecombineGenes(gene1, gene2, location)
               ELSE <<gene1, gene2>>
    IN  <<MutateAt(rec[1], mask1), MutateAt(rec[2], mask2)>>

\* self._genes = genes at the end of _selection, and the next turn of the loop of
\* execute. The new genes are new objects; of the old ones only best_gene is kept.
EndSelection(sv, genes) ==
    LET last == sv.run + 1 >= sv.max_runs
    IN  [sv EXCEPT !.heap = <<sv.heap[sv.best_gene]>> \o genes,
                   !.best_gene = 1,
                   !.genes = [j \in DOMAIN genes |-> j + 1],
                   !.next_genes = <<>>,
                   !.run = IF last THEN @ ELSE @ + 1,
                   !.pc = IF last THEN "returned" ELSE "measure",
                   !.gi = 1]

\* the packers handed to a solver: a FlatPacker whose 5x10 envelope takes the 5x10
\* item or the 5x5 item, a Packer whose bin takes nothing (max_weight 0), and a
\* Packer whose larger bin takes both items
SolverPackers ==
    {AddItem(AddItem(AddBin(NewPacker("FlatPacker"), 5, 10, 10, 2), 5, 5, 5, 1),
             5, 10, 5, 1),
     AddItem(AddItem(AddBin(NewPacker("Packer"), 5, 5, 5, 0), 5, 5, 5, 1), 5, 5, 5, 1),
     AddItem(AddItem(AddBin(AddBin(NewPacker("Packer"), 5, 10, 10, 2),
                            10, 10, 10, UNLIMITED_WEIGHT), 5, 5, 5, 1), 5, 10, 5, 1)}

\* the max_fitness a solver is made with: 0.5 or 1.0
TargetFitness == {[num |-> 1, den |-> 2], [num |-> 1, den |-> 1]}

\* the values of the genes a caller adds: 0.0 or 1.0
GeneValues == {0, PickDen}

\* ------------------------------------------------ the packer under pack()

\* The bins and the items a caller adds: <<width, height, depth, max_weight>> and
\* <<width, height, depth, weight>>; a FlatPacker takes no depth (it is 1).
BinKinds == {<<10, 10, 10, UNLIMITED_WEIGHT>>, <<5, 10, 10, 2>>, <<5, 5, 5, 0>>}
ItemKinds == {<<5, 5, 5, 1>>, <<5, 10, 5, 1>>}

\* the pick values of the item schemas handed to schematic_pack: 0 (from the
\* front), 1 (from the end) and 1 + 1/PickDen (out of range)
PackPickValues == {0, PickDen, PickDen + 1}

VARIABLES
    packer,     \* the packer a caller builds and packs
    frame,      \* the running (or ended) _pack call on it
    picker,     \* a schematic_picker generator a caller iterates
    solver,     \* a GeneticSolver
    seen_max,   \* the largest fill ratio _measure_fitness has computed so far
    original,   \* the packer that `packer` was copied from
    call,       \* a call of Bin.get_fill_ratio or recombine_genes, and its outcome
    held        \* Item objects a caller holds and writes and reads directly

vars == <<packer, frame, picker, solver, seen_max, original, call, held>>

IdleSolver == NewSolver(NewPacker("Packer"), 1, [num |-> 1, den |-> 1])

\* no call was made
NoCall ==
    [op |-> "", done |-> FALSE, error |-> "",
     box |-> NewBin("Box", 0, 0, 0, 0), item |-> <<>>, ratio |-> [num |-> 0, den |-> 1],
     gene1 |-> NewGene(0, 0), gene2 |-> NewGene(0, 0), index |-> 0,
     before1 |-> NewGene(0, 0), before2 |-> NewGene(0, 0)]

\* shuffle_pack is not called
NoShuffle ==
    [pc |-> "none", attempts |-> 0, best_ratio |-> [num |-> 0, den |-> 1],
     best_packer |-> NewPacker("Packer"), best_is_input |-> TRUE,
     seen |-> [num |-> 0, den |-> 1]]

\* no copy was taken
NoOriginal ==
    [copied |-> FALSE, pk |-> NewPacker("Packer"), same |-> <<>>, shuffle |-> NoShuffle]

\* no item is held
NoHeld == [item |-> <<>>, box |-> <<>>, last |-> [op |-> "", item |-> 0, value |-> <<>>]]

Init ==
    /\ packer \in {NewPacker(cls) : cls \in {"Packer", "FlatPacker"}}
    /\ frame = IdleFrame
    /\ picker = NewPicker(<<>>, <<>>)
    /\ solver = IdleSolver
    /\ seen_max = [num |-> 0, den |-> 1]
    /\ original = NoOriginal
    /\ call = NoCall
    /\ held = NoHeld

\* add_bin while no pack call runs (two bins at most): append_bin raises, and
\* changes nothing, on a packed packer
AddBinAct ==
    /\ frame.pc \in {"init", "done", "error"}
    /\ ~ IsPacked(packer)
    /\ Len(packer.bins) < 2
    /\ \E kind \in BinKinds :
           packer' = AddBin(packer, kind[1], kind[2], kind[3], kind[4])
    /\ UNCHANGED <<frame, picker, solver, seen_max, original, call, held>>

\* add_item while no pack call runs: append_item raises, and changes nothing, on a
\* packed packer
AddItemAct ==
    /\ frame.pc \in {"init", "done", "error"}
    /\ ~ IsPacked(packer)
    /\ Len(packer.items) < MaxItems
    /\ \E kind \in ItemKinds :
           packer' = AddItem(packer, kind[1], kind[2], kind[3], kind[4])
    /\ UNCHANGED <<frame, picker, solver, seen_max, original, call, held>>

\* pack(pick) is called: the lists are ordered and _pack runs up to its first
\* put_item call
Pack ==
    /\ frame.pc = "init"
    /\ \E pick \in {"SMALLER_FIRST", "BIGGER_FIRST", "SHUFFLE"} :
       \E bperm \in Permutations_(Len(packer.bins)) :
       \E iperm \in Permutations_(Len(packer.items)) :
       \E c \in {PackCall(packer, pick, bperm, iperm)} :
       \E s \in {ToNextPut(c.pk, c.fr)} :
           packer' = s.pk /\ frame' = s.fr /\ UNCHANGED <<picker, solver, seen_max, original, call, held>>

\* schematic_pack(item_schema, bin_schema) is called and _pack runs up to its first
\* put_item call; the item schema has a value for each item, or lacks the last
SchematicPack ==
    /\ frame.pc = "init"
    /\ \E m \in {Len(packer.items) - 1, Len(packer.items)} \cap Nat :
       \E item_schema \in [1..m -> PackPickValues] :
       \E bin_schema \in {NoSchema, Schema(Repeat(0, Len(packer.bins)))} :
       \E c \in {SchematicPackCall(packer, item_schema, bin_schema)} :
       \E s \in {ToNextPut(c.pk, c.fr)} :
           packer' = s.pk /\ frame' = s.fr /\ UNCHANGED <<picker, solver, seen_max, original, call, held>>

\* pack_to_bin calls put_item at its next pivot, and _pack goes on to its next
\* put_item call
PutItemStep ==
    /\ frame.pc = "put"
    /\ \E c \in {PutItemCall(packer, frame)} :
       \E s \in {ToNextPut(c.pk, c.fr)} :
           packer' = s.pk /\ frame' = s.fr /\ UNCHANGED <<picker, solver, seen_max, original, call, held>>

Next ==
    \/ AddBinAct
    \/ AddItemAct
    \/ Pack
    \/ SchematicPack
    \/ PutItemStep

Spec == Init /\ [][Next]_vars

\* ------------------------------------------ a schematic_picker of its own

\* schematic_picker(list, schema) is called with a list of distinct elements and a
\* schema of pick values; the generator has not run yet
PickerInit ==
    /\ packer = NewPacker("Packer")
    /\ frame = IdleFrame
    /\ \E n \in 0..MaxLen, m \in 0..MaxLen :
       \E schema \in [1..m -> PickValues] :
           picker = NewPicker([j \in 1..n |-> 10 + j], schema)
    /\ solver = IdleSolver
    /\ seen_max = [num |-> 0, den |-> 1]
    /\ original = NoOriginal
    /\ call = NoCall
    /\ held = NoHeld

\* next() on the generator
PickerNextStep ==
    /\ picker.status \notin {"exhausted", "error"}
    /\ picker' = PickerNext(picker)
    /\ UNCHANGED <<packer, frame, solver, seen_max, original, call, held>>

PickerSpec == PickerInit /\ [][PickerNextStep]_vars

\* ------------------------------------------------- a copy of a packer

\* the unpacked packers a caller has built: one or two bins, one to MaxItems items
BuiltPackers ==
    {The({[pk EXCEPT !.bins = [b \in DOMAIN bk |->
                                  AddBin(pk, bk[b][1], bk[b][2], bk[b][3], bk[b][4]).bins[1]],
                     !.items = [j \in DOMAIN ik |-> j],
                     !.item = [j \in DOMAIN ik |->
                                  AddItem(pk, ik[j][1], ik[j][2], ik[j][3], ik[j][4]).item[1]]]
          : pk \in {NewPacker(cls)}})
     : cls \in {"Packer", "FlatPacker"},
       bk \in UNION {[1..n -> BinKinds] : n \in 1..2},
       ik \in UNION {[1..n -> ItemKinds] : n \in 1..MaxItems}}

CopyInit ==
    /\ packer \in BuiltPackers
    /\ frame = IdleFrame
    /\ picker = NewPicker(<<>>, <<>>)
    /\ solver = IdleSolver
    /\ seen_max = [num |-> 0, den |-> 1]
    /\ original = NoOriginal
    /\ call = NoCall
    /\ held = NoHeld

\* q = p.copy() on the unpacked packer p, whose bins are empty; from here on
\* `packer` is q and `original` is p
CopyAct ==
    /\ frame.pc = "init"
    /\ ~ original.copied
    /\ ~ IsPacked(packer)
    /\ \A b \in DOMAIN packer.bins : packer.bins[b].items = <<>>
    /\ original' = [copied |-> TRUE, pk |-> packer, same |-> CopiedItems(packer),
                    shuffle |-> NoShuffle]
    /\ packer' = PackerCopy(packer)
    /\ UNCHANGED <<frame, picker, solver, seen_max, call, held>>

CopyNext ==
    \/ CopyAct
    \/ Pack
    \/ SchematicPack
    \/ PutItemStep

CopySpec == CopyInit /\ [][CopyNext]_vars

\* ------------------------------------------------------------ shuffle_pack

\* shuffle_pack(packer, attempts) is called on the unpacked packer with empty bins
ShufflePack ==
    /\ frame.pc = "init"
    /\ original.shuffle.pc = "none"
    /\ \E attempts \in 1..MaxAttempts :
           original' = [copied |-> TRUE, pk |-> packer, same |-> CopiedItems(packer),
                        shuffle |-> ShufflePackCall(packer, attempts)]
    /\ UNCHANGED <<packer, frame, picker, solver, seen_max, call, held>>

\* one turn of its loop: the input is copied and the copy is packed, which may raise;
\* `packer` is new_packer from here on
ShuffleAttempt ==
    /\ original.shuffle.pc = "loop"
    /\ \E bperm \in Permutations_(Len(original.pk.bins)) :
       \E iperm \in Permutations_(Len(original.pk.items)) :
       \E c \in {PackCall(PackerCopy(original.pk), "SHUFFLE", bperm, iperm)} :
       \E r \in {RunPack(c.pk, c.fr)} :
           /\ packer' = r.pk
           /\ frame' = r.fr
           /\ original' = [original EXCEPT !.shuffle =
                              IF r.fr.pc = "error" THEN [@ EXCEPT !.pc = "raised"]
                              ELSE ShuffleTurn(@, r.pk)]
    /\ UNCHANGED <<picker, solver, seen_max, call, held>>

ShuffleNext ==
    \/ ShufflePack
    \/ ShuffleAttempt

ShuffleSpec == CopyInit /\ [][ShuffleNext]_vars

\* ------------------------------- calls of get_fill_ratio and recombine_genes

\* the bins get_fill_ratio is called on: the first bin of a packer with one bin,
\* of a size of BinKinds or of width 0, after pack()
FillRatioCalls ==
    {The({[NoCall EXCEPT !.op = "get_fill_ratio", !.box = r.pk.bins[1],
                         !.item = r.pk.item]
          : r \in {The({RunPack(c.pk, c.fr)
                        : c \in {PackCall(pk, "BIGGER_FIRST", <<>>, <<>>)}})}})
     : pk \in {[p0 EXCEPT !.bins[1].width = w] :
                 p0 \in {q \in BuiltPackers : Len(q.bins) = 1 /\ Len(q.items) <= 2},
                 w \in {0, 5}}}

\* the values of the genes handed to recombine_genes: 0.0, 1/PickDen and 1.0
CallGeneValues == {0, 1, PickDen}

\* two genes of one length from 1 to MaxLen, both with a fitness, and an index
RecombineCalls ==
    {[NoCall EXCEPT !.op = "recombine_genes",
                    !.gene1 = [GeneOf(d1) EXCEPT !.fitness = Fitness([num |-> 1, den |-> 2])],
                    !.gene2 = [GeneOf(d2) EXCEPT !.fitness = Fitness([num |-> 1, den |-> 4])],
                    !.before1 = [GeneOf(d1) EXCEPT !.fitness = Fitness([num |-> 1, den |-> 2])],
                    !.before2 = [GeneOf(d2) EXCEPT !.fitness = Fitness([num |-> 1, den |-> 4])],
                    !.index = index]
     : d1 \in UNION {[1..n -> CallGeneValues] : n \in 1..MaxLen},
       d2 \in UNION {[1..n -> CallGeneValues] : n \in 1..MaxLen},
       index \in 0..MaxLen}

CallInit ==
    /\ packer = NewPacker("Packer")
    /\ frame = IdleFrame
    /\ picker = NewPicker(<<>>, <<>>)
    /\ solver = IdleSolver
    /\ seen_max = [num |-> 0, den |-> 1]
    /\ original = NoOriginal
    /\ call \in FillRatioCalls
                \cup {c \in RecombineCalls : /\ Len(c.gene1.data) = Len(c.gene2.data)
                                             /\ c.index <= Len(c.gene1.data)}
    /\ held = NoHeld

\* box.get_fill_ratio() is called
GetFillRatioCall ==
    /\ call.op = "get_fill_ratio"
    /\ ~ call.done
    /\ \E r \in {BinFillRatio(call.box, call.item)} :
           call' = [call EXCEPT !.done = TRUE, !.error = r.error,
                                !.ratio = [num |-> r.num, den |-> r.den]]
    /\ UNCHANGED <<packer, frame, picker, solver, seen_max, original, held>>

\* recombine_genes(gene1, gene2, index) is called
RecombineCall ==
    /\ call.op = "recombine_genes"
    /\ ~ call.done
    /\ \E r \in {RecombineGenesCall(call.gene1, call.gene2, call.index)} :
           call' = [call EXCEPT !.done = TRUE, !.error = r.error,
                                !.gene1 = r.gene1, !.gene2 = r.gene2]
    /\ UNCHANGED <<packer, frame, picker, solver, seen_max, original, held>>

CallNext ==
    \/ GetFillRatioCall
    \/ RecombineCall

CallSpec == CallInit /\ [][CallNext]_vars

\* -------------------------------------------------------- a GeneticSolver

\* GeneticSolver(packer, max_runs, max_fitness) was made
SolverInit ==
    /\ packer = NewPacker("Packer")
    /\ frame = IdleFrame
    /\ picker = NewPicker(<<>>, <<>>)
    /\ solver \in {NewSolver(pk, max_runs, max_fitness) :
                     pk \in SolverPackers, max_runs \in 1..MaxRuns,
                     max_fitness \in TargetFitness}
    /\ seen_max = [num |-> 0, den |-> 1]
    /\ original = NoOriginal
    /\ call = NoCall
    /\ held = NoHeld

\* add_gene(gene) while execute() is not running, with a gene of the required
\* length, or one shorter or longer: it raises (and changes nothing) once
\* is_executed, or for a gene of another length
SolverAddGene ==
    /\ solver.pc \in {"idle", "returned"}
    /\ ~ IsExecuted(solver)
    /\ Len(solver.genes) < MaxGenes
    /\ \E n \in {solver.required_gene_length - 1, solver.required_gene_length,
                  solver.required_gene_length + 1} :
       \E values \in [1..n -> GeneValues] :
           solver' = AddGene(solver, GeneOf(values))
    /\ UNCHANGED <<packer, frame, picker, seen_max, original, call, held>>

\* execute(max_time=...) is called, feedback left None; it raises (and changes nothing) once is_executed
SolverExecute ==
    /\ solver.pc \in {"idle", "returned"}
    /\ ~ IsExecuted(solver)
    /\ \E max_time \in {0, MaxTimeDefault}, now \in solver.clock..MaxClock :
           solver' = ExecuteCall(solver, max_time, now)
    /\ UNCHANGED <<packer, frame, picker, seen_max, original, call, held>>

\* _measure_fitness looks at its next gene
SolverMeasure ==
    /\ solver.pc = "measure"
    /\ solver.gi <= Len(solver.genes)
    /\ solver' = MeasureGene(solver)
    /\ seen_max' =
           IF solver.heap[solver.genes[solver.gi]].fitness.none
              /\ RatioGreater(solver'.heap[solver.genes[solver.gi]].fitness, seen_max)
           THEN [num |-> solver'.heap[solver.genes[solver.gi]].fitness.num,
                 den |-> solver'.heap[solver.genes[solver.gi]].fitness.den]
           ELSE seen_max
    /\ UNCHANGED <<packer, frame, picker, original, call, held>>

\* _measure_fitness is through: execute() breaks or goes on to _selection
SolverCheck ==
    /\ solver.pc = "measure"
    /\ solver.gi > Len(solver.genes)
    /\ \E now \in solver.clock..MaxClock : solver' = CheckBreaks(solver, now)
    /\ UNCHANGED <<packer, frame, picker, seen_max, original, call, held>>

\* one turn of the loop of _selection
SolverSelectPair ==
    /\ solver.pc = "select"
    /\ Len(solver.next_genes) < Len(solver.genes)
    /\ \E j1, j2 \in Pickable(solver) :
       \E cross \in BOOLEAN :
       \E location \in 0..(solver.required_gene_length - 1) :
       \E mask1, mask2 \in SUBSET (1..solver.required_gene_length) :
           solver' = [solver EXCEPT !.next_genes =
                         @ \o Pair(solver, j1, j2, cross, location, mask1, mask2)]
    /\ UNCHANGED <<packer, frame, picker, seen_max, original, call, held>>

\* random.choices raises ValueError for a total weight of 0 (Python 3.9 and later):
\* execute() ends with it
SolverSelectionRaises ==
    /\ solver.pc = "select"
    /\ Len(solver.next_genes) < Len(solver.genes)
    /\ \A j \in DOMAIN solver.genes : WheelWeights(solver)[j].num = 0
    /\ solver' = [solver EXCEPT !.pc = "returned", !.next_genes = <<>>]
    /\ UNCHANGED <<packer, frame, picker, seen_max, original, call, held>>

\* _selection is through: the new generation replaces the population
SolverEndSelection ==
    /\ solver.pc = "select"
    /\ Len(solver.next_genes) >= Len(solver.genes)
    /\ solver' = EndSelection(solver, solver.next_genes)
    /\ UNCHANGED <<packer, frame, picker, seen_max, original, call, held>>

SolverNext ==
    \/ SolverAddGene
    \/ SolverExecute
    \/ SolverMeasure
    \/ SolverCheck
    \/ SolverSelectPair
    \/ SolverSelectionRaises
    \/ SolverEndSelection

SolverSpec == SolverInit /\ [][SolverNext]_vars

\* the steps of a running execute() call
ExecuteStep ==
    \/ SolverMeasure
    \/ SolverCheck
    \/ SolverSelectPair
    \/ SolverSelectionRaises
    \/ SolverEndSelection

\* execute() is inside its loop
Running(sv) == sv.pc \in {"measure", "select"}

\* an invariant of SolverSpec: a step of execute() can be taken exactly while
\* the call runs
RunningIsEnabled == Running(solver) <=> ENABLED <<ExecuteStep>>_vars

\* execute() is one sequential call: while it runs, its next statement is executed.
\* This is weak fairness of ExecuteStep, written with Running for ENABLED
\* <<ExecuteStep>>_vars (the two agree in every reachable state: RunningIsEnabled;
\* and every step from a state where the call runs is a step of ExecuteStep).
ExecuteGoesOn == []<>(~ Running(solver)) \/ []<><<Running(solver)>>_vars

SolverLiveSpec == SolverSpec /\ ExecuteGoesOn

\* ------------------------------------------------------ claims on packing

\* how often item i is held: in the unplaced list and in the bins' placed lists
TimesHeld(pk, i) ==
    Cardinality({j \in DOMAIN pk.items : pk.items[j] = i})
    + SumSeq([b \in DOMAIN pk.bins |->
                Cardinality({j \in DOMAIN pk.bins[b].items : pk.bins[b].items[j] = i})])

\* C1: in every bin, at every point of pack()/schematic_pack() and after it, no two
\* distinct placed items have bounding boxes that intersect.
C1_NoTwoPlacedItemsOverlap ==
    \A b \in DOMAIN packer.bins :
        \A j1, j2 \in DOMAIN packer.bins[b].items :
            j1 # j2 =>
                ~ Intersect(BBox(packer.item[packer.bins[b].items[j1]]),
                            BBox(packer.item[packer.bins[b].items[j2]]))

\* C2: in every state, the weights of the items placed in a bin sum to at most the
\* bin's max_weight.
C2_WeightWithinMaxWeight ==
    \A b \in DOMAIN packer.bins :
        BinTotalWeight(packer.bins[b], packer.item) <= packer.bins[b].max_weight

\* C2's case: pack() has ended, and a bin of max_weight 0 stayed empty although an
\* unplaced item of positive weight, which was offered to it, fits into it.
C2_Witness ==
    /\ frame.pc = "done"
    /\ frame.strategy \in {"SMALLER_FIRST", "BIGGER_FIRST", "SHUFFLE"}
    /\ \E b \in DOMAIN packer.bins :
       \E j \in DOMAIN packer.items :
           LET box == packer.bins[b]
               it == packer.item[packer.items[j]]
           IN  /\ box.max_weight = 0
               /\ box.items = <<>>
               /\ it.weight > 0
               /\ FitsInside(box, [it EXCEPT !.position = START_POSITION,
                                             !.rotation_type = "WHD"])

\* C3: at every point, every item added to the packer is held exactly once: in the
\* unplaced list or in the placed list of one bin.
C3_EachItemHeldOnce ==
    \A i \in DOMAIN packer.item : TimesHeld(packer, i) = 1

\* the packer of C4's scenario: two 10x10x10 bins of unlimited weight and three
\* 5x5x5 items of weight 1 in a Packer
IsCubeScenario ==
    /\ packer.cls = "Packer"
    /\ Len(packer.bins) = 2
    /\ \A b \in DOMAIN packer.bins :
           /\ <<packer.bins[b].width, packer.bins[b].height, packer.bins[b].depth>>
                  = <<10, 10, 10>>
           /\ packer.bins[b].max_weight = UNLIMITED_WEIGHT
    /\ Len(packer.item) = 3
    /\ \A i \in DOMAIN packer.item :
           /\ <<packer.item[i].width, packer.item[i].height, packer.item[i].depth>>
                  = <<5, 5, 5>>
           /\ packer.item[i].weight = 1

\* C4: pack(BIGGER_FIRST) on the scenario's packer returns normally with the three
\* items placed, nothing unplaced and a fill ratio of 0.1875 (= 1875/10000).
C4_CubeScenarioPacksAll ==
    (/\ IsCubeScenario
     /\ frame.strategy = "BIGGER_FIRST"
     /\ frame.pc \in {"done", "error"})
    => /\ frame.pc = "done"
       /\ packer.items = <<>>
       /\ \A i \in DOMAIN packer.item :
              \E b \in DOMAIN packer.bins : i \in Range(packer.bins[b].items)
       /\ FillRatio(packer).num * 10000 = 1875 * FillRatio(packer).den

\* C5: a put_item call that fails leaves the bin's placed list as it was and the
\* item with the orientation and the position it had before the call.
C5_FailedPutItemRestoresItem ==
    [][(frame.pc = "put" /\ ~ CurrentPut(packer, frame).ok)
        => /\ \A b \in DOMAIN packer.bins :
                  packer'.bins[b].items = packer.bins[b].items
           /\ packer'.item[CurrentItem(frame)].rotation_type
                  = packer.item[CurrentItem(frame)].rotation_type
           /\ packer'.item[CurrentItem(frame)].position
                  = packer.item[CurrentItem(frame)].position]_vars

\* C11: after q = p.copy() of an unpacked packer p with empty bins, q has as many
\* bins and items as p, and whatever pack()/schematic_pack() does on q, p stays as it
\* was: not packed, its bins empty, its unplaced list the same items in the same
\* order, each with the position and the orientation it had.
C11_CopyLeavesOriginalAlone ==
    original.copied =>
        /\ Len(packer.bins) = Len(original.pk.bins)
        /\ Len(packer.item) = Len(original.pk.items)
        /\ SeenNow(original, packer) = original.pk
        /\ ~ IsPacked(SeenNow(original, packer))
        /\ \A b \in DOMAIN original.pk.bins :
               SeenNow(original, packer).bins[b].items = <<>>
        /\ \A i \in DOMAIN original.pk.item :
               /\ SeenNow(original, packer).item[i].position = START_POSITION
               /\ SeenNow(original, packer).item[i].rotation_type = "WHD"

\* C11's case: the copy was packed to the end, an item of it was placed turned and away
\* from the start position, and another one was tried and left unplaced
C11_Witness ==
    /\ original.copied
    /\ frame.pc = "done"
    /\ packer.items # <<>>
    /\ \E b \in DOMAIN packer.bins :
       \E j \in DOMAIN packer.bins[b].items :
           /\ packer.item[packer.bins[b].items[j]].position # START_POSITION
           /\ packer.item[packer.bins[b].items[j]].rotation_type # "WHD"

\* C12: once pack() or schematic_pack() has started, the packer is packed in every
\* later state, and no later add_bin/add_item call gets a bin or an item into it: the
\* bin list keeps its bins and the unplaced list only loses the items that are placed.
C12_PackedIsOneWay ==
    /\ [](frame.pc # "init" => ~ packer.init_state)
    /\ [][frame.pc # "init"
            => /\ ~ packer'.init_state
               /\ Len(packer'.bins) = Len(packer.bins)
               /\ Len(packer'.item) = Len(packer.item)
               /\ Range(packer'.items) \subseteq Range(packer.items)
               /\ (frame.pc \in {"done", "error"} => packer' = packer)]_vars

\* C12's case: pack() has ended on a packer that could take one more bin and one
\* more item, were it not packed
C12_Witness ==
    /\ frame.pc = "done"
    /\ ~ packer.init_state
    /\ Len(packer.bins) = 1
    /\ packer.bins[1].items # <<>>
    /\ packer.items # <<>>
    /\ Len(packer.item) < MaxItems

\* item `it`, turned to rotation rt and put at the start position, is inside `box`
FitsEmpty(box, it, rt) ==
    FitsInside(box, [it EXCEPT !.position = START_POSITION, !.rotation_type = rt])

\* C17: in every state of packing every placed item lies inside its bin: its position
\* is not negative and position + oriented dimension does not pass the bin's width,
\* height and depth; and an item that is too large for every bin in every rotation
\* the bin supports is held by no bin.
C17_PlacedItemsInsideBin ==
    /\ \A b \in DOMAIN packer.bins :
       \A j \in DOMAIN packer.bins[b].items :
           LET it == packer.item[packer.bins[b].items[j]]
           IN  /\ \A a \in 1..3 : 0 <= it.position[a]
               /\ FitsInside(packer.bins[b], it)
    /\ \A i \in DOMAIN packer.item :
           (\A b \in DOMAIN packer.bins :
               \A k \in DOMAIN Rotations(packer.bins[b]) :
                   ~ FitsEmpty(packer.bins[b], packer.item[i], Rotations(packer.bins[b])[k]))
           => \A b \in DOMAIN packer.bins : i \notin Range(packer.bins[b].items)

\* C18: shuffle_pack(packer, attempts), attempts >= 1, returns a packer that is not
\* the input object and is packed, with the best fill ratio of the attempts, and the
\* input is as it was: not packed, bins empty, the same items, untouched; also when no
\* attempt places an item.
C18_ShufflePackReturnsNewPacker ==
    /\ original.shuffle.pc # "raised"
    /\ original.shuffle.pc = "returned"
       => /\ ~ original.shuffle.best_is_input
          /\ IsPacked(original.shuffle.best_packer)
          /\ SameRatio(FillRatio(original.shuffle.best_packer), original.shuffle.seen)
          /\ SeenNow(original, packer) = original.pk
          /\ ~ IsPacked(original.pk)
          /\ \A b \in DOMAIN original.pk.bins : original.pk.bins[b].items = <<>>

\* put_item(item, START_POSITION) would succeed on the empty bin `box`
FitsEmptyBin(box, it) ==
    /\ it.weight <= box.max_weight
    /\ \E k \in DOMAIN Rotations(box) : FitsEmpty(box, it, Rotations(box)[k])

\* C20: schematic_pack offers every bin every item that is still unplaced, as pack
\* does: when it has returned, no item that fits into a bin that stayed empty is
\* left in the unplaced list.
C20_SchematicPackOffersEveryBin ==
    (frame.pc = "done" /\ frame.strategy = "schematic")
    => \A j \in DOMAIN packer.items :
       \A b \in DOMAIN packer.bins :
           packer.bins[b].items = <<>>
           => ~ FitsEmptyBin(packer.bins[b], packer.item[packer.items[j]])

\* ---------------------------------------------- claims on schematic_picker

\* the list the generator was made for: what it yielded and what it has left
PickerInput == Len(picker.out) + Len(picker.items)

\* value v (in units of 1/PickDen) lies in [0, 1]
InUnitRange(v) == 0 <= v /\ v <= PickDen

\* index is round(|v| * (n - 1)): an integer no further than 1/2 from it, and the
\* even one of the two when it lies halfway between them
IsRounded(index, v, n) ==
    LET twice == 2 * Abs(v) * (n - 1) - 2 * PickDen * index
    IN  /\ -PickDen <= twice /\ twice <= PickDen
        /\ (twice = PickDen \/ twice = -PickDen) => index % 2 = 0

\* the generator is about to consume a pick value for a list that is not empty
ConsumesValue ==
    /\ picker.status \notin {"exhausted", "error"}
    /\ picker.items # <<>>
    /\ picker.pos < Len(picker.schema)

\* C6: with a schema whose first N values lie in [0,1], a picker over N elements
\* consumes exactly N values and yields every element once, each step yielding the
\* element at index round(|v| * (remaining - 1)) of the remaining list.
C6_PickerYieldsPermutation ==
    /\ [](  (/\ picker.status = "exhausted"
             /\ Len(picker.schema) >= PickerInput
             /\ \A j \in 1..PickerInput : InUnitRange(picker.schema[j]))
          => /\ picker.pos = PickerInput
             /\ picker.items = <<>>
             /\ Range(picker.out) = {10 + j : j \in 1..PickerInput}
             /\ Len(picker.out) = PickerInput)
    /\ [][(ConsumesValue /\ InUnitRange(picker.schema[picker.pos + 1]))
          => \E index \in 0..(Len(picker.items) - 1) :
                /\ IsRounded(index, picker.schema[picker.pos + 1], Len(picker.items))
                /\ picker'.status = "yielded"
                /\ picker'.pos = picker.pos + 1
                /\ picker'.out = Append(picker.out, picker.items[index + 1])
                /\ Range(picker'.items) = Range(picker.items) \ {picker.items[index + 1]}
         ]_vars

\* C6's case: a picker over MaxLen elements has yielded them all, in another order
\* than the list's, after a pick from the middle
C6_Witness ==
    /\ picker.status = "exhausted"
    /\ PickerInput = MaxLen
    /\ picker.pos = MaxLen
    /\ \A j \in 1..MaxLen : InUnitRange(picker.schema[j])
    /\ \E j \in 1..MaxLen : picker.schema[j] \notin {0, PickDen}
    /\ picker.out # [j \in 1..MaxLen |-> 10 + j]

Overshoots(v, n) ==
    \/ 2 * Abs(v) * (n - 1) > PickDen * (2 * n - 1)
    \/ 2 * Abs(v) * (n - 1) = PickDen * (2 * n - 1) /\ n % 2 = 0

C8_SolverRunsOnce == [][solver.pc = "returned" => solver' = solver]_vars

\* C9: execute(max_time=T) stops at the first check between two generations at which
\* the time since its start is more than T: it never goes on to _selection then.
C9_StopsWhenTimeIsUp ==
    [][(solver.pc = "measure" /\ solver'.pc = "select")
           => solver'.t1 - solver.start_time <= solver.max_time]_vars

BestTriple(sv) == <<sv.best_fitness, sv.heap[sv.best_gene], sv.best_packer>>

\* C10: best_fitness never decreases; after every fitness evaluation it is the largest
\* fitness evaluated so far in this solver and the fill ratio of best_packer; the
\* triple (best_fitness, best_gene, best_packer) changes only when a strictly greater
\* fitness is found, so selection, crossover and mutation leave it alone.
C10_BestIsMonotoneMaximum ==
    /\ [](/\ SameRatio(solver.best_fitness, seen_max)
          /\ SameRatio(solver.best_fitness, FillRatio(solver.best_packer)))
    /\ [][BestTriple(solver') # BestTriple(solver)
              => /\ RatioGreater(solver'.best_fitness, solver.best_fitness)
                 /\ solver.pc = "measure"
                 /\ solver'.heap[solver'.best_gene].fitness
                        = Fitness(solver'.best_fitness)]_vars

\* a later generation was made and measured after the best gene was found: the best
\* gene is no longer in the population, and another gene of the later generation,
\* of no greater fitness, did not replace it
C10_Witness ==
    /\ solver.run > 0
    /\ solver.pc = "returned"
    /\ solver.best_fitness.num > 0
    /\ solver.best_gene \notin Range(solver.genes)
    /\ \E j \in DOMAIN solver.genes :
           /\ ~ solver.heap[solver.genes[j]].fitness.none
           /\ RatioAtLeast(solver.best_fitness, solver.heap[solver.genes[j]].fitness)
           /\ solver.heap[solver.genes[j]].data # solver.heap[solver.best_gene].data

\* a gene a solver of required length n may hold
IsValidGene(gene, n) ==
    /\ gene.length = n
    /\ Len(gene.data) = n
    /\ \A j \in 1..n : 0 <= gene.data[j] /\ gene.data[j] <= PickDen

\* C16: every gene of the population, and every gene _selection has made, has the
\* length of the base packer's unplaced list and values in [0, 1]; add_gene puts
\* nothing but one gene of that length into the population.
C16_GenesKeepLengthAndRange ==
    /\ [](/\ solver.required_gene_length = Len(solver.packer.items)
          /\ \A j \in DOMAIN solver.genes :
                 IsValidGene(solver.heap[solver.genes[j]], Len(solver.packer.items))
          /\ \A j \in DOMAIN solver.next_genes :
                 IsValidGene(solver.next_genes[j], Len(solver.packer.items)))
    /\ [][(solver.pc \in {"idle", "returned"} /\ solver'.pc = solver.pc
           /\ solver' # solver)
            => /\ Len(solver'.genes) = Len(solver.genes) + 1
               /\ SubSeq(solver'.genes, 1, Len(solver.genes)) = solver.genes
               /\ SubSeq(solver'.heap, 1, Len(solver.heap)) = solver.heap]_vars

\* C16's case: a later generation holds a gene that crossover made of two different
\* parents, or mutation changed: its data is no data of the generation before
C16_Witness ==
    /\ solver.pc = "measure"
    /\ solver.run > 0
    /\ Len(solver.genes) >= 2
    /\ solver.heap[solver.genes[1]].data # solver.heap[solver.genes[2]].data
    /\ \E j \in DOMAIN solver.genes : solver.heap[solver.genes[j]].fitness.none

\* pack(BIGGER_FIRST) on a copy of the solver's packer: how it ends, and the fill ratio
Greedy(pk) ==
    The({[pc |-> r.fr.pc, ratio |-> FillRatio(r.pk)]
         : r \in {The({RunPack(c.pk, c.fr)
                       : c \in {PackCall(PackerCopy(pk), "BIGGER_FIRST", <<>>, <<>>)}})}})

PicksBiggestFirst(gene) == \A j \in DOMAIN gene.data : gene.data[j] = PickDen

C13_BinFillRatioNeverFails ==
    (call.op = "get_fill_ratio" /\ call.done)
    => /\ call.error = ""
       /\ IF BinCapacity(call.box) = 0
          THEN call.ratio.num = 0
          ELSE call.ratio.num * BinCapacity(call.box)
                   = BinTotalVolume(call.box, call.item) * call.ratio.den

\* C14: recombine_genes(a, b, i) on genes of one length L with 0 <= i < L returns
\* normally, leaves both lengths at L, keeps the positions before i in each gene and
\* exchanges the others; at i = 0 the genes swap their contents.
C14_RecombineExchangesTails ==
    (call.op = "recombine_genes" /\ call.done /\ call.index < Len(call.before1.data))
    => LET L == Len(call.before1.data)
           i == call.index
       IN  /\ call.error = ""
           /\ Len(call.gene1.data) = L /\ Len(call.gene2.data) = L
           /\ call.gene1.length = L /\ call.gene2.length = L
           /\ \A j \in 1..i : /\ call.gene1.data[j] = call.before1.data[j]
                              /\ call.gene2.data[j] = call.before2.data[j]
           /\ \A j \in (i + 1)..L : /\ call.gene1.data[j] = call.before2.data[j]
                                    /\ call.gene2.data[j] = call.before1.data[j]
           /\ i = 0 => /\ call.gene1.data = call.before2.data
                       /\ call.gene2.data = call.before1.data

\* C14's case: two genes of length MaxLen that differ before and after the index were
\* recombined in the middle
C14_Witness ==
    /\ call.op = "recombine_genes" /\ call.done
    /\ Len(call.before1.data) = MaxLen
    /\ call.index = 1
    /\ call.before1.data[1] # call.before2.data[1]
    /\ call.before1.data[MaxLen] # call.before2.data[MaxLen]
    /\ call.gene1.data # call.before1.data
    /\ call.gene1.data # call.before2.data

\* C15: recombine_genes on two genes of one length L >= 1 at index L returns normally
\* and leaves both genes with the data and the length they had.
C15_RecombineAtLengthIsNoOp ==
    (call.op = "recombine_genes" /\ call.done /\ call.index = Len(call.before1.data))
    => /\ call.error = ""
       /\ call.gene1.data = call.before1.data
       /\ call.gene2.data = call.before2.data
       /\ Len(call.gene1.data) = call.gene1.length

\* ------------------------------------------- claims on the solver's selection

\* C21: every _selection step ends with a next generation of exactly as many genes
\* as the generation it started from, for an even and for an odd population.
C21_SelectionKeepsPopulationSize ==
    [][(solver.pc = "select" /\ solver'.pc # "select")
       => Len(solver'.genes) = Len(solver.genes)]_vars

\* the sum of the fitness values of the population (their common denominator aside)
TotalFitness(sv) == SumSeq([j \in DOMAIN sv.genes |-> sv.heap[sv.genes[j]].fitness.num])

\* C22: while _selection draws parents, the wheel gives every gene the same positive
\* weight when the total fitness of the generation is 0, and fitness / total fitness
\* (weights summing to 1) otherwise; and a draw from the wheel does not raise: the
\* step after a draw that is still needed is still inside _selection.
C22_WheelWeights ==
    /\ [](solver.pc = "select" =>
            \A w \in {WheelWeights(solver)} :
                IF TotalFitness(solver) = 0
                THEN \A j, k \in DOMAIN w :
                         w[j].num > 0 /\ w[j].num * w[k].den = w[k].num * w[j].den
                ELSE /\ \A j \in DOMAIN w :
                            /\ w[j].num = solver.heap[solver.genes[j]].fitness.num
                            /\ w[j].den = TotalFitness(solver)
                     /\ SumSeq([j \in DOMAIN w |-> w[j].num]) = TotalFitness(solver))
    /\ [][(solver.pc = "select" /\ Len(solver.next_genes) < Len(solver.genes))
          => solver'.pc = "select"]_vars

\* the part of C22 for a generation of positive total fitness
C22_WeightsSumToOne ==
    (solver.pc = "select" /\ TotalFitness(solver) > 0)
    => \A w \in {WheelWeights(solver)} :
           /\ \A j \in DOMAIN w : w[j].num * TotalFitness(solver)
                                     = solver.heap[solver.genes[j]].fitness.num * w[j].den
           /\ SumSeq([j \in DOMAIN w |-> w[j].num]) = w[1].den

\* ------------------------------------------ claims on the end of execute()

\* C23: execute() always terminates: a running call returns; it evaluates at most
\* max_runs generations; a _selection makes at most as many draws as fill the next
\* generation; and when _measure_fitness ends with best_fitness >= max_fitness,
\* execute() returns at once, with no _selection and no further generation.
C23_ExecuteTerminates ==
    /\ [](solver.run + 1 <= solver.max_runs)
    /\ [](solver.pc = "select" => Len(solver.next_genes) <= Len(solver.genes) + 1)
    /\ [][(/\ solver.pc = "measure"
           /\ solver.gi > Len(solver.genes)
           /\ RatioAtLeast(solver.best_fitness, solver.max_fitness))
          => /\ solver'.pc = "returned"
             /\ solver'.genes = solver.genes
             /\ solver'.heap = solver.heap
             /\ solver'.run = solver.run]_vars
    /\ Running(solver) ~> (solver.pc = "returned")

\* execute() has returned from its first generation, of more it could run, because
\* a gene of the population reached the target fitness
C23_Witness ==
    /\ solver.pc = "returned"
    /\ solver.run = 0
    /\ solver.max_runs > 1
    /\ Len(solver.genes) >= 1
    /\ \A j \in DOMAIN solver.genes : ~ solver.heap[solver.genes[j]].fitness.none
    /\ solver.best_gene \in Range(solver.genes)
    /\ RatioAtLeast(solver.best_fitness, solver.max_fitness)

\* ------------------------------------- claims on the bins schematic_pack visits

\* the capacity of the k-th bin the loop `for box in bins` of _pack visits
VisitedCapacity(pk, fr, k) == BinCapacity(pk.bins[fr.box_order[k]])

\* C24 as stated: schematic_pack without a bin_schema visits the bins in ascending
\* order of capacity: no bin is visited before a bin of smaller capacity.
C24_BinsVisitedSmallerFirst ==
    (frame.strategy = "schematic" /\ frame.bin_schema_none)
    => \A k1, k2 \in DOMAIN frame.box_order :
           k1 < k2 => VisitedCapacity(packer, frame, k1)
                      <= VisitedCapacity(packer, frame, k2)

\* C24, amended: schematic_pack without a bin_schema visits every bin once, in
\* descending order of capacity: no bin is visited before a bin of larger capacity.
C24_BinsVisitedBiggerFirst ==
    (frame.strategy = "schematic" /\ frame.bin_schema_none)
    => /\ Len(frame.box_order) = Len(packer.bins)
       /\ Range(frame.box_order) = DOMAIN packer.bins
       /\ frame.box_err = ""
       /\ \A k1, k2 \in DOMAIN frame.box_order :
              k1 < k2 => VisitedCapacity(packer, frame, k1)
                         >= VisitedCapacity(packer, frame, k2)

\* schematic_pack has visited two bins, the larger one first, and placed an item in it
C24_Witness ==
    /\ frame.strategy = "schematic"
    /\ frame.bin_schema_none
    /\ frame.pc = "done"
    /\ Len(frame.box_order) = 2
    /\ frame.bi = 2
    /\ VisitedCapacity(packer, frame, 1) > VisitedCapacity(packer, frame, 2)
    /\ packer.bins[frame.box_order[1]].items # <<>>

\* ------------------------------------------- claims on the solver's base packer

\* the genes of the solver that were measured
Measured(sv) == {g \in DOMAIN sv.heap : ~ sv.heap[g].fitness.none}

\* C25: execute() never changes the base packer: in every state it is the packer
\* the solver was made with, unpacked, its bins empty, its items unplaced where and
\* as they were; and packing the copy of one evaluation changes no copy of another
\* one: best_packer changes only by being replaced, and always shows the packing
\* that measured best_fitness.
C25_BasePackerIsNeverChanged ==
    /\ [](/\ solver.packer \in SolverPackers
          /\ ~ IsPacked(solver.packer)
          /\ \A b \in DOMAIN solver.packer.bins : solver.packer.bins[b].items = <<>>
          /\ \A i \in DOMAIN solver.packer.item :
                 /\ solver.packer.item[i].position = START_POSITION
                 /\ solver.packer.item[i].rotation_type = "WHD"
          /\ SameRatio(FillRatio(solver.best_packer), solver.best_fitness))
    /\ [][/\ solver'.packer = solver.packer
          /\ (solver'.best_packer # solver.best_packer
               => RatioGreater(solver'.best_fitness, solver.best_fitness))]_vars

\* execute() has returned after two generations, more than one copy was packed,
\* and the best copy holds a placed item
C25_Witness ==
    /\ solver.pc = "returned"
    /\ solver.run >= 1
    /\ Cardinality(Measured(solver)) >= 2
    /\ IsPacked(solver.best_packer)
    /\ \E b \in DOMAIN solver.best_packer.bins : solver.best_packer.bins[b].items # <<>>
    /\ ~ IsPacked(solver.packer)

\* ------------------------------------------------- Item objects on their own

\* BoundingBox(): the empty box an Item is made with
EmptyBox == [extmin |-> <<>>, extmax |-> <<>>]

\* no read, write or copy was made yet
NoOp == [op |-> "", item |-> 0, value |-> EmptyBox]

\* Item(...) / FlatItem(...): `item` holds the Item objects and `box` the BoundingBox
\* objects, both by id; an item's bbox is the id of the object its _bbox refers to,
\* tainted_bbox is its _tainted_bbox. `last` is the last operation on an item, and
\* what it returned.
HoldItem(cls, width, height, depth, weight) ==
    [item |-> <<[it |-> NewItem(cls, width, height, depth, weight),
                 bbox |-> 1, tainted_bbox |-> TRUE]>>,
     box |-> <<EmptyBox>>,
     last |-> NoOp]

SetPositionKeepsFlag(h, i, value) ==
    [h EXCEPT !.item[i].it.position = value,
              !.last = [op |-> "position", item |-> i, value |-> EmptyBox]]

\* item.position = value
SetPosition(h, i, value) ==
    [h EXCEPT !.item[i].it.position = value,
              !.item[i].tainted_bbox = TRUE,
              !.last = [op |-> "position", item |-> i, value |-> EmptyBox]]

\* item.rotation_type = value
SetRotationType(h, i, value) ==
    [h EXCEPT !.item[i].it.rotation_type = value,
              !.item[i].tainted_bbox = TRUE,
              !.last = [op |-> "rotation_type", item |-> i, value |-> EmptyBox]]

\* the elements of a sequence, each once, in the order of their first occurrence
RECURSIVE Distinct(_)
Distinct(s) ==
    IF s = <<>> THEN <<>>
    ELSE LET d == Distinct(SubSeq(s, 1, Len(s) - 1))
         IN  IF s[Len(s)] \in Range(d) THEN d ELSE Append(d, s[Len(s)])

\* The BoundingBox objects some item refers to: an object that loses its last
\* reference is freed. The ids are the order in which the items refer to them.
Referenced(h) ==
    LET d == Distinct([i \in DOMAIN h.item |-> h.item[i].bbox])
    IN  [h EXCEPT !.box = [k \in DOMAIN d |-> h.box[d[k]]],
                  !.item = [i \in DOMAIN h.item |->
                               [h.item[i] EXCEPT
                                   !.bbox = CHOOSE k \in DOMAIN d : d[k] = h.item[i].bbox]]]

\* Item._update_bbox / FlatItem._update_bbox: _bbox refers to a new BoundingBox
UpdateBBox(h, i) ==
    Referenced([h EXCEPT !.box = Append(@, BBox(h.item[i].it)),
                         !.item[i].bbox = Len(h.box) + 1])

\* item.bbox
ReadBBox(h, i) ==
    LET u == IF h.item[i].tainted_bbox
             THEN [UpdateBBox(h, i) EXCEPT !.item[i].tainted_bbox = FALSE]
             ELSE h
    IN  [u EXCEPT !.last = [op |-> "bbox", item |-> i, value |-> u.box[u.item[i].bbox]]]

\* item.copy(): copy.copy(self), a new object with the attribute values of item i,
\* the reference to its BoundingBox object included
ItemCopy(h, i) ==
    [h EXCEPT !.item = Append(@, h.item[i]),
              !.last = [op |-> "copy", item |-> Len(h.item) + 1, value |-> EmptyBox]]

\* the positions and the orientations a caller writes
HeldPositions == {START_POSITION, <<5, 0, 0>>}
HeldRotations == {"WHD", "HWD"}

\* an Item or a FlatItem was made
ItemInit ==
    /\ packer = NewPacker("Packer")
    /\ frame = IdleFrame
    /\ picker = NewPicker(<<>>, <<>>)
    /\ solver = IdleSolver
    /\ seen_max = [num |-> 0, den |-> 1]
    /\ original = NoOriginal
    /\ call = NoCall
    /\ \E cls \in {"Item", "FlatItem"}, kind \in ItemKinds :
           held = HoldItem(cls, kind[1], kind[2], kind[3], kind[4])

HeldSetPosition ==
    /\ \E i \in DOMAIN held.item, value \in HeldPositions :
           held' = SetPosition(held, i, value)
    /\ UNCHANGED <<packer, frame, picker, solver, seen_max, original, call>>

HeldSetRotationType ==
    /\ \E i \in DOMAIN held.item, value \in HeldRotations :
           held' = SetRotationType(held, i, value)
    /\ UNCHANGED <<packer, frame, picker, solver, seen_max, original, call>>

HeldReadBBox ==
    /\ \E i \in DOMAIN held.item : held' = ReadBBox(held, i)
    /\ UNCHANGED <<packer, frame, picker, solver, seen_max, original, call>>

HeldCopy ==
    /\ Len(held.item) < 1 + MaxCopies
    /\ \E i \in DOMAIN held.item : held' = ItemCopy(held, i)
    /\ UNCHANGED <<packer, frame, picker, solver, seen_max, original, call>>

ItemNext ==
    \/ HeldSetPosition
    \/ HeldSetRotationType
    \/ HeldReadBBox
    \/ HeldCopy

ItemSpec == ItemInit /\ [][ItemNext]_vars

\* -------------------------------------------------- claims on Item objects

\* C26: whatever was written, read and copied before, a read of item.bbox returns
\* the box from the item's position to position + dimension in its orientation. A
\* write of position or rotation_type sets _tainted_bbox; a read leaves it cleared and
\* makes a new box only when it was set; and an operation on one item changes no
\* other item and not the box another item refers to.
C26_BBoxReadIsCurrent ==
    /\ [](held.last.op = "bbox"
          => /\ held.last.value = BBox(held.item[held.last.item].it)
             /\ ~ held.item[held.last.item].tainted_bbox)
    /\ [](held.last.op \in {"position", "rotation_type"}
          => held.item[held.last.item].tainted_bbox)
    /\ [](\A i \in DOMAIN held.item :
              ~ held.item[i].tainted_bbox
              => held.box[held.item[i].bbox] = BBox(held.item[i].it))
    /\ [][(held'.last.op = "bbox" /\ ~ held.item[held'.last.item].tainted_bbox)
          => held'.box = held.box /\ held'.item = held.item]_vars
    /\ [][\A j \in DOMAIN held.item :
              j # held'.last.item
              => /\ held'.item[j].it = held.item[j].it
                 /\ held'.item[j].tainted_bbox = held.item[j].tainted_bbox
                 /\ held'.box[held'.item[j].bbox] = held.box[held.item[j].bbox]]_vars

\* an item and a copy of it that was moved and turned were both read, the original
\* last: each refers to a box of its own
C26_Witness ==
    /\ Len(held.item) >= 2
    /\ held.last.op = "bbox"
    /\ held.last.item = 1
    /\ ~ held.item[2].tainted_bbox
    /\ ~ held.item[1].tainted_bbox
    /\ held.item[2].bbox # held.item[1].bbox
    /\ held.item[2].it.position # held.item[1].it.position
    /\ held.item[2].it.rotation_type # held.item[1].it.rotation_type
    /\ held.box[held.item[2].bbox] # held.box[held.item[1].bbox]

====
